---- MODULE Spec2Model ----
(***************************************************************************)
(* Model of the cdk-gateway melt-swap handler (src/src/gateway_server.rs). *)
(* One POST /payment request is one handler slot that advances from one    *)
(* suspension point (.await) of post_melt_request to the next.  The        *)
(* upstream node, the mints behind the multi-mint wallet and the clock are *)
(* the environment.                                                        *)
(***************************************************************************)
EXTENDS Integers, Sequences, FiniteSets, TLC

(* ---------------------------------------------------------------------- *)
(* Bounds                                                                  *)
(* ---------------------------------------------------------------------- *)
\* longest `tokens` list of a request
MaxTokens == 2
\* number of 900 s steps the clock may advance in one behaviour
MaxTicks == 1
\* largest total_spent the upstream node reports
MaxSpent == 3
\* number of 900 s steps the clock may advance while a payment is pending
MaxDelayTicks == 2

(* ---------------------------------------------------------------------- *)
(* Option<T>: None is the empty sequence, Some(x) a one-element sequence   *)
(* ---------------------------------------------------------------------- *)
None == <<>>
Some(x) == <<x>>
IsSome(o) == o # <<>>
Unwrap(o) == o[1]

(* ---------------------------------------------------------------------- *)
(* Constants of the program                                                *)
(* ---------------------------------------------------------------------- *)
\* gateway_server.rs:335  locktime < unix_time() + 900
LOCKTIME_SLACK == 900
\* gateway_server.rs:216  amount / 1_000
MSAT_PER_SAT == 1000
\* StatusCode::PAYMENT_REQUIRED
PAYMENT_REQUIRED == 402
\* StatusCode::INTERNAL_SERVER_ERROR
INTERNAL_SERVER_ERROR == 500

(* ---------------------------------------------------------------------- *)
(* The world the requests are drawn from                                   *)
(* ---------------------------------------------------------------------- *)
\* the one handler slot of the sequential specification
Handlers == {1}

\* mints the multi-mint wallet was built with (cdk_gateway.rs:84-112)
Wallets == {"M1", "M2"}

\* sha256 of a preimage
Sha256(preimage) == IF preimage = "P1" THEN "H1" ELSE "H2"
Preimages == {"P1", "P2"}

\* the step by which the clock advances
TickSize == LOCKTIME_SLACK

Htlc(amount, data, locktime) ==
    [amount |-> amount, kind |-> "HTLC", data |-> data, locktime |-> locktime]
P2pk(amount) ==
    [amount |-> amount, kind |-> "P2PK", data |-> "K1", locktime |-> None]
\* a secret that is not a NUT-10 well-known secret
RawSecret(amount) ==
    [amount |-> amount, kind |-> "raw", data |-> "", locktime |-> None]
\* a NUT-10 secret whose data does not convert to spending conditions
BadNut10(amount) ==
    [amount |-> amount, kind |-> "nut10-invalid", data |-> "", locktime |-> None]

TokenOf(mint, dleq, proofs) == [mint |-> mint, dleq |-> dleq, proofs |-> proofs]

\* the token strings a client may send
TokenStrings ==
    {"garbage", "tA", "tB", "tC", "tD", "tE", "tF", "tG", "tH", "tI", "tJ"}

\* Token::from_str: Err is None
TokenFromStr(s) ==
    CASE s = "tA" -> Some(TokenOf("M1", TRUE,
                       <<Htlc(1, "H1", None), Htlc(1, "H1", Some(LOCKTIME_SLACK))>>))
      [] s = "tB" -> Some(TokenOf("M1", TRUE, <<Htlc(1, "H1", None)>>))
      [] s = "tC" -> Some(TokenOf("M2", TRUE,
                       <<Htlc(1, "H1", Some(3 * LOCKTIME_SLACK))>>))
      [] s = "tD" -> Some(TokenOf("M1", TRUE,
                       <<Htlc(1, "H1", None), Htlc(1, "H2", None)>>))
      [] s = "tE" -> Some(TokenOf("M1", TRUE,
                       <<Htlc(2, "H1", Some(LOCKTIME_SLACK - 1))>>))
      [] s = "tF" -> Some(TokenOf("M1", TRUE, <<P2pk(2)>>))
      [] s = "tG" -> Some(TokenOf("M1", TRUE, <<RawSecret(2)>>))
      [] s = "tH" -> Some(TokenOf("M1", FALSE, <<Htlc(2, "H1", None)>>))
      [] s = "tI" -> Some(TokenOf("M3", TRUE, <<Htlc(2, "H1", None)>>))
      [] s = "tJ" -> Some(TokenOf("M1", TRUE, <<BadNut10(2)>>))
      [] OTHER -> None

\* Token::to_string: the encoding from_str decodes
TokenToString(token) == CHOOSE s \in TokenStrings : TokenFromStr(s) = Some(token)

\* the invoice strings a client may send
InvoiceStrings == {"lnxx", "lnbc-H1", "lnbc500m-H1", "lnbc1000m-H1", "lnbc2500m-H1", "lnbc1000m-H2"}

Invoice(hash, msat) == [payment_hash |-> hash, amount_milli_satoshis |-> msat]

\* str::parse::<Bolt11Invoice>: Err is None
ParseInvoice(s) ==
    CASE s = "lnbc-H1" -> Some(Invoice("H1", None))
      [] s = "lnbc500m-H1" -> Some(Invoice("H1", Some(500)))
      [] s = "lnbc1000m-H1" -> Some(Invoice("H1", Some(1000)))
      [] s = "lnbc2500m-H1" -> Some(Invoice("H1", Some(2500)))
      [] s = "lnbc1000m-H2" -> Some(Invoice("H2", Some(1000)))
      [] OTHER -> None

\* sequences over S of length at most n
SeqUpTo(S, n) == UNION {[1..k -> S] : k \in 0..n}

\* the offer string of a bolt12 request
OfferStrings == {"lno1"}

\* MeltRequest
Payloads ==
    [method : {"bolt11"},
     request : InvoiceStrings,
     amount : {None, Some(3)},
     tokens : SeqUpTo(TokenStrings, MaxTokens)]
    \cup
    [method : {"bolt12"},
     request : OfferStrings,
     amount : {None, Some(3)},
     tokens : SeqUpTo(TokenStrings, MaxTokens)]

(* ---------------------------------------------------------------------- *)
(* Pure helpers of the handler                                             *)
(* ---------------------------------------------------------------------- *)
RECURSIVE SumAmounts(_)
\* Amount::try_sum
SumAmounts(amounts) ==
    IF amounts = <<>> THEN 0 ELSE Head(amounts) + SumAmounts(Tail(amounts))

\* Token::value: the sum of the proofs' amounts
TokenValue(token) == SumAmounts([k \in 1..Len(token.proofs) |-> token.proofs[k].amount])

\* a plausible slip: decoding stops at the first string that fails to decode
DecodeTokensUntilError(strs) ==
    LET bad == {k \in 1..Len(strs) : TokenFromStr(strs[k]) = None}
        n == IF bad = {} THEN Len(strs)
             ELSE (CHOOSE k \in bad : \A j \in bad : k <= j) - 1
    IN  [k \in 1..n |-> Unwrap(TokenFromStr(strs[k]))]

\* payload.tokens.iter().flat_map(|t| Token::from_str(t)).collect()
DecodeTokens(strs) ==
    LET ok == SelectSeq(strs, LAMBDA s : IsSome(TokenFromStr(s)))
    IN  [k \in 1..Len(ok) |-> Unwrap(TokenFromStr(ok[k]))]

\* tokens.iter().map(|a| a.value().unwrap()) summed by Amount::try_sum
TotalAmount(tokens) == SumAmounts([k \in 1..Len(tokens) |-> TokenValue(tokens[k])])

\* PaymentRequestBuilder ... .build()
PaymentRequest(amount, mints, hash) ==
    [unit |-> "sat", amount |-> amount, mints |-> mints,
     nut10 |-> [kind |-> "HTLC", data |-> hash]]

\* PaymentRequest::to_string: a tagged encoding of the request
PaymentRequestToString(pr) == [creq |-> "creqA", encoded |-> pr]

\* format!("Required: {}, provided: {}", amount_to_pay_sat, total_amount)
InsufficientDetails(required, provided) ==
    "Required: " \o ToString(required) \o ", provided: " \o ToString(provided)

ErrorResponse(code, message, details, payment_request) ==
    [code |-> code, message |-> message, details |-> details,
     payment_request |-> payment_request]

\* str::contains: `needle` occurs in `message` at some position
MessageContains(message, needle) ==
    \E i \in 1..(Len(message) - Len(needle) + 1) :
       SubSeq(message, i, i + Len(needle) - 1) = needle

\* a plausible slip: the code is used as the status without the fallback
StatusFromU16Unchecked(code) == code

\* StatusCode::from_u16(code).unwrap_or(INTERNAL_SERVER_ERROR)
StatusFromU16(code) ==
    IF code >= 100 /\ code < 1000 THEN code ELSE INTERNAL_SERVER_ERROR

\* the status ErrorResponse::into_response chooses
ErrorStatus(e) ==
    IF e.code = 400
       /\ (\/ MessageContains(e.message, "Insufficient funds")
           \/ MessageContains(e.message, "Missing amount")
           \/ MessageContains(e.message, "Token verification failed"))
    THEN PAYMENT_REQUIRED
    ELSE StatusFromU16(e.code)

\* a plausible slip: payment_request loses its #[serde(skip)]
SerializeErrorUnskipped(e) == e

\* Json(serializable_error): the fields serde writes; payment_request is
\* #[serde(skip)]
SerializeError(e) == [f \in DOMAIN e \ {"payment_request"} |-> e[f]]

\* HeaderValue::from_str: Err (None) for a string that is no legal header value
HeaderValueFromStr(s) == IF s.creq = "creqA" THEN Some(s) ELSE None

\* impl IntoResponse for ErrorResponse
IntoResponse(e) ==
    [kind |-> "error",
     status |-> ErrorStatus(e),
     x_cashu |-> IF ErrorStatus(e) = PAYMENT_REQUIRED /\ IsSome(e.payment_request)
                 THEN HeaderValueFromStr(Unwrap(e.payment_request))
                 ELSE None,
     body |-> SerializeError(e)]

\* Ok(Json(MeltResponse { payment_proof, change }))
OkResponse(payment_proof, change) ==
    [kind |-> "ok", status |-> 200, x_cashu |-> None,
     body |-> [payment_proof |-> payment_proof, change |-> change]]

\* the handler task panicked: the connection is dropped without a response
PanicResponse == [kind |-> "panic", status |-> 0, x_cashu |-> None, body |-> None]

\* a plausible slip: the HTLC data is not compared with the payment hash
CheckProofHashUnchecked(proof, hash, unix_time) ==
    CASE proof.kind = "raw" -> "secret"
      [] proof.kind = "nut10-invalid" -> "panic"
      [] proof.kind = "P2PK" -> "p2pk"
      [] OTHER ->
           IF IsSome(proof.locktime)
              /\ Unwrap(proof.locktime) < unix_time + LOCKTIME_SLACK
           THEN "locktime"
           ELSE "ok"

\* the outcome of the checks on one proof (gateway_server.rs:309-358)
CheckProof(proof, hash, unix_time) ==
    CASE proof.kind = "raw" -> "secret"
      [] proof.kind = "nut10-invalid" -> "panic"
      [] proof.kind = "P2PK" -> "p2pk"
      [] OTHER ->
           IF proof.data # hash THEN "hash"
           ELSE IF IsSome(proof.locktime)
                   /\ Unwrap(proof.locktime) < unix_time + LOCKTIME_SLACK
                THEN "locktime"
                ELSE "ok"

RECURSIVE CheckProofs(_, _, _, _)
\* for proof in token.proofs(): the first proof that fails decides
CheckProofs(proofs, k, hash, unix_time) ==
    IF k > Len(proofs) THEN "ok"
    ELSE IF CheckProof(proofs[k], hash, unix_time) # "ok"
         THEN CheckProof(proofs[k], hash, unix_time)
         ELSE CheckProofs(proofs, k + 1, hash, unix_time)

\* a plausible slip: the funds check is left to the per-token loop, which has none
InsufficientFundsUnchecked(total_amount, amount_to_pay_sat) == FALSE

\* a plausible slip: the comparison of the funds check is turned around
InsufficientFundsReversed(total_amount, amount_to_pay_sat) ==
    amount_to_pay_sat < total_amount

\* gateway_server.rs:272  if total_amount < amount_to_pay_sat
InsufficientFunds(total_amount, amount_to_pay_sat) ==
    total_amount < amount_to_pay_sat

\* a plausible slip: a bolt12 request is passed on to the invoice parser
MethodSupportedAny(method) == TRUE

\* match payload.method: the Bolt11 arm goes on, the Bolt12 arm returns an error
MethodSupported(method) == method = "bolt11"

\* a plausible slip: the amount of the body wins over the invoice's
AmountToPayBodyFirst(bolt11, payload_amount) ==
    IF IsSome(payload_amount)
    THEN Unwrap(payload_amount)
    ELSE Unwrap(bolt11.amount_milli_satoshis) \div MSAT_PER_SAT

\* gateway_server.rs:215-227: the invoice's amount in sat, else the body's
\* (one of the two is present)
AmountToPay(bolt11, payload_amount) ==
    IF IsSome(bolt11.amount_milli_satoshis)
    THEN Unwrap(bolt11.amount_milli_satoshis) \div MSAT_PER_SAT
    ELSE Unwrap(payload_amount)

\* the error a failed proof check returns
ProofError(verdict, payment_request) ==
    CASE verdict = "secret" ->
           ErrorResponse(400, "Token verification failed",
                         Some("Secret validation failed: invalid secret"),
                         Some(PaymentRequestToString(payment_request)))
      [] verdict = "hash" ->
           ErrorResponse(400, "Token hash does not match payment hash", None,
                         Some(PaymentRequestToString(payment_request)))
      [] verdict = "locktime" ->
           ErrorResponse(400, "Token lock time is not long enough", None,
                         Some(PaymentRequestToString(payment_request)))
      [] OTHER ->
           ErrorResponse(400, "Token verification failed", None,
                         Some(PaymentRequestToString(payment_request)))

(* ---------------------------------------------------------------------- *)
(* State                                                                   *)
(* ---------------------------------------------------------------------- *)
VARIABLES
    handler,   \* handler[r]: the locals of one run of post_melt_request
    now,       \* unix_time()
    spent,     \* token strings the mints have redeemed
    server_cancel,  \* CdkGateway.server_cancel: has the token been cancelled
    shutdown_rx,    \* messages waiting in main's shutdown channel
    process         \* "running" until main returns, then "exited"

vars == <<handler, now, spent, server_cancel, shutdown_rx, process>>

\* a handler slot before its request arrives
IdleHandler ==
    [pc |-> "idle",
     payload |-> None,
     hash |-> None,
     amount_to_pay_sat |-> 0,
     payment_request |-> None,
     tokens |-> <<>>,
     total_amount |-> 0,
     used_mints |-> <<>>,
     idx |-> 0,
     payment_response |-> None,
     change_amount |-> 0,
     change |-> <<>>,
     calls |-> <<>>,
     error |-> None,
     response |-> None]

Init ==
    /\ handler = [r \in Handlers |-> IdleHandler]
    /\ now = 0
    /\ spent = {}
    /\ server_cancel = FALSE
    /\ shutdown_rx = 0
    /\ process = "running"

\* the handler returns: its result is turned into the HTTP response
Return(h, response) == [h EXCEPT !.pc = "done", !.response = Some(response)]

(* ---------------------------------------------------------------------- *)
(* Actions                                                                 *)
(* ---------------------------------------------------------------------- *)
\* the clock advances, as long as a request is still to be answered
Tick ==
    /\ process = "running"
    /\ now < MaxTicks * TickSize
    /\ \E r \in Handlers : handler[r].pc # "done"
    /\ now' = now + TickSize
    /\ UNCHANGED <<handler, spent, server_cancel, shutdown_rx, process>>

\* one entry of the record of what the handler did: a call on the wallet, the
\* mint, the node or the clock, or the handler being entered
Call(h, entry) == [h EXCEPT !.calls = Append(@, entry)]

\* gateway_server.rs:200-283: method, invoice, amount, hint, decoding, funds check
DecodeRequestStep(h0, payload, unix_time) ==
    LET h == Call([h0 EXCEPT !.payload = Some(payload)],
                  [op |-> "post_melt_request", unix_time |-> unix_time])
        parsed == ParseInvoice(payload.request)
        bolt11 == Unwrap(parsed)
        amount == AmountToPay(bolt11, payload.amount)
        hash == bolt11.payment_hash
        payment_request == PaymentRequest(amount, Wallets, hash)
        tokens == DecodeTokens(payload.tokens)
        total_amount == TotalAmount(tokens)
    IN  IF ~MethodSupported(payload.method)
        THEN Return(h, IntoResponse(ErrorResponse(400, "Payment method not supported",
                        Some("BOLT12 payment method is not supported"), None)))
        ELSE IF parsed = None
        THEN Return(h, IntoResponse(ErrorResponse(400, "Invalid BOLT11 invoice", None, None)))
        ELSE IF bolt11.amount_milli_satoshis = None /\ payload.amount = None
        THEN Return(h, IntoResponse(ErrorResponse(400, "Missing amount",
                        Some("Invoice has no amount specified. Please provide an amount in the request."),
                        None)))
        ELSE LET h1 == [h EXCEPT !.hash = Some(hash),
                                 !.amount_to_pay_sat = amount,
                                 !.payment_request = Some(payment_request),
                                 !.tokens = tokens,
                                 !.total_amount = total_amount]
             IN  IF InsufficientFunds(total_amount, amount)
                 THEN Return(h1, IntoResponse(ErrorResponse(402, "Insufficient funds",
                                 Some(InsufficientDetails(amount, total_amount)),
                                 Some(PaymentRequestToString(payment_request)))))
                 ELSE [h1 EXCEPT !.pc = IF tokens = <<>> THEN "pay" ELSE "validate",
                                 !.idx = 1]

\* POST /payment: the Json extractor hands the payload to post_melt_request,
\* which runs to its first suspension point; once server_cancel is cancelled
\* the server takes no new request (with_graceful_shutdown)
DecodeRequest(r) ==
    /\ process = "running"
    /\ ~server_cancel
    /\ handler[r].pc = "idle"
    /\ \E payload \in Payloads :
         handler' = [handler EXCEPT ![r] = DecodeRequestStep(handler[r], payload, now)]
    /\ UNCHANGED <<now, spent, server_cancel, shutdown_rx, process>>

\* gateway_server.rs:414-426: the proof is unwrapped, the change amount computed,
\* and the change loop entered; with no used mint the handler answers at once
AfterReceive(h) ==
    LET payment_response == Unwrap(h.payment_response)
        change_amount == IF h.total_amount >= payment_response.total_spent
                         THEN h.total_amount - payment_response.total_spent
                         ELSE 0
    IN  IF payment_response.payment_proof = None
        THEN Return(h, IntoResponse(ErrorResponse(500, "Missing payment proof in response",
                                                  None, None)))
        ELSE IF h.used_mints = <<>>
        THEN Return([h EXCEPT !.change_amount = change_amount],
                    OkResponse(Unwrap(payment_response.payment_proof), <<>>))
        ELSE [h EXCEPT !.change_amount = change_amount, !.pc = "change", !.idx = 1]

\* gateway_server.rs:287-360: one turn of the validation loop
ValidateTokenStep(h, unix_time) ==
    LET token == h.tokens[h.idx]
        payment_request == Unwrap(h.payment_request)
        h1 == Call(h, [op |-> "get_wallet", mint |-> token.mint])
        h2 == Call([h1 EXCEPT !.used_mints = Append(@, token.mint)],
                   [op |-> "verify_token_dleq", token |-> TokenToString(token)])
        h3 == Call(h2, [op |-> "check_proofs", token |-> TokenToString(token),
                        unix_time |-> unix_time])
        verdict == CheckProofs(token.proofs, 1, Unwrap(h.hash), unix_time)
    IN  IF token.mint \notin Wallets
        THEN Return(h1, PanicResponse)
        ELSE IF ~token.dleq
        THEN Return(h2, IntoResponse(ErrorResponse(400, "Token verification failed",
                        Some("DLEQ verification error: invalid dleq"),
                        Some(PaymentRequestToString(payment_request)))))
        ELSE IF verdict = "panic"
        THEN Return(h3, PanicResponse)
        ELSE IF verdict # "ok"
        THEN Return(h3, IntoResponse(ProofError(verdict, payment_request)))
        ELSE IF h.idx < Len(h.tokens)
        THEN [h3 EXCEPT !.idx = @ + 1]
        ELSE [h3 EXCEPT !.pc = "pay"]

ValidateToken(r) ==
    /\ process = "running"
    /\ handler[r].pc = "validate"
    /\ handler' = [handler EXCEPT ![r] = ValidateTokenStep(handler[r], now)]
    /\ UNCHANGED <<now, spent, server_cancel, shutdown_rx, process>>

\* what node.make_payment may return: Err, or a response with or without a preimage
PaymentResults ==
    {None} \cup {Some([payment_proof |-> proof, total_spent |-> total_spent]) :
                    proof \in {None} \cup {Some(p) : p \in Preimages},
                    total_spent \in 0..MaxSpent}

\* a plausible slip: a failed payment is tried a second time
MakePaymentStepRetry(h, result) ==
    LET h1 == Call(h, [op |-> "make_payment", unit |-> "sat",
                       bolt11 |-> Unwrap(h.payload).request,
                       max_fee_amount |-> None, timeout_secs |-> None,
                       result |-> result])
        h2 == [h1 EXCEPT !.payment_response = result]
        first == \A j \in 1..Len(h.calls) : h.calls[j].op # "make_payment"
    IN  IF result = None /\ first
        THEN h1
        ELSE IF result = None
        THEN Return(h1, IntoResponse(ErrorResponse(500, "Payment failed",
                                                   Some("payment error"), None)))
        ELSE IF h.tokens = <<>>
        THEN AfterReceive(h2)
        ELSE [h2 EXCEPT !.pc = "receive", !.idx = 1]

\* gateway_server.rs:362-377: the upstream payment
MakePaymentStep(h, result) ==
    LET h1 == Call(h, [op |-> "make_payment", unit |-> "sat",
                       bolt11 |-> Unwrap(h.payload).request,
                       max_fee_amount |-> None, timeout_secs |-> None,
                       result |-> result])
        h2 == [h1 EXCEPT !.payment_response = result]
    IN  IF result = None
        THEN Return(h1, IntoResponse(ErrorResponse(500, "Payment failed",
                                                   Some("payment error"), None)))
        ELSE IF h.tokens = <<>>
        THEN AfterReceive(h2)
        ELSE [h2 EXCEPT !.pc = "receive", !.idx = 1]

MakePayment(r) ==
    /\ process = "running"
    /\ handler[r].pc = "pay"
    /\ \E result \in PaymentResults :
         handler' = [handler EXCEPT ![r] = MakePaymentStep(handler[r], result)]
    /\ UNCHANGED <<now, spent, server_cancel, shutdown_rx, process>>

\* the mint redeems an HTLC token once, against the preimage of its hash
MintAccepts(token, preimage, redeemed) ==
    /\ TokenToString(token) \notin redeemed
    /\ \A k \in 1..Len(token.proofs) :
         token.proofs[k].kind = "HTLC" => Sha256(preimage) = token.proofs[k].data

\* a plausible slip: a missing preimage becomes an empty preimage list
\* (unwrap_or_default) instead of an error
ReceiveTokenStepNoProofCheck(h, received) ==
    LET token == h.tokens[h.idx]
        payment_proof == Unwrap(h.payment_response).payment_proof
        h1 == Call(h, [op |-> "get_wallet", mint |-> token.mint])
        h2 == Call(h1, [op |-> "receive", token |-> TokenToString(token),
                        preimages |-> payment_proof, received |-> received])
    IN  IF token.mint \notin Wallets
        THEN Return(h1, PanicResponse)
        ELSE IF ~received
        THEN Return(h2, IntoResponse(ErrorResponse(500, "Failed to process token receive",
                                                   Some("receive error"), None)))
        ELSE IF h.idx < Len(h.tokens)
        THEN [h2 EXCEPT !.idx = @ + 1]
        ELSE AfterReceive(h2)

\* a plausible slip: the redemption loop walks the tokens from the last one
ReceiveTokenStepReversed(h, received) ==
    LET token == h.tokens[Len(h.tokens) + 1 - h.idx]
        payment_proof == Unwrap(h.payment_response).payment_proof
        h1 == Call(h, [op |-> "get_wallet", mint |-> token.mint])
        h2 == Call(h1, [op |-> "receive", token |-> TokenToString(token),
                        preimages |-> <<Unwrap(payment_proof)>>, received |-> received])
    IN  IF token.mint \notin Wallets
        THEN Return(h1, PanicResponse)
        ELSE IF payment_proof = None
        THEN Return(h1, IntoResponse(ErrorResponse(500, "Missing payment proof", None, None)))
        ELSE IF ~received
        THEN Return(h2, IntoResponse(ErrorResponse(500, "Failed to process token receive",
                                                   Some("receive error"), None)))
        ELSE IF h.idx < Len(h.tokens)
        THEN [h2 EXCEPT !.idx = @ + 1]
        ELSE AfterReceive(h2)

\* gateway_server.rs:379-412: one turn of the redemption loop
ReceiveTokenStep(h, received) ==
    LET token == h.tokens[h.idx]
        payment_proof == Unwrap(h.payment_response).payment_proof
        h1 == Call(h, [op |-> "get_wallet", mint |-> token.mint])
        h2 == Call(h1, [op |-> "receive", token |-> TokenToString(token),
                        preimages |-> <<Unwrap(payment_proof)>>, received |-> received])
    IN  IF token.mint \notin Wallets
        THEN Return(h1, PanicResponse)
        ELSE IF payment_proof = None
        THEN Return(h1, IntoResponse(ErrorResponse(500, "Missing payment proof", None, None)))
        ELSE IF ~received
        THEN Return(h2, IntoResponse(ErrorResponse(500, "Failed to process token receive",
                                                   Some("receive error"), None)))
        ELSE IF h.idx < Len(h.tokens)
        THEN [h2 EXCEPT !.idx = @ + 1]
        ELSE AfterReceive(h2)

ReceiveToken(r) ==
    /\ process = "running"
    /\ handler[r].pc = "receive"
    /\ LET h == handler[r]
           token == h.tokens[h.idx]
           payment_proof == Unwrap(h.payment_response).payment_proof
           called == token.mint \in Wallets /\ IsSome(payment_proof)
       IN  \E received \in BOOLEAN :
             /\ received => called /\ MintAccepts(token, Unwrap(payment_proof), spent)
             /\ ~called => ~received
             /\ handler' = [handler EXCEPT ![r] = ReceiveTokenStep(h, received)]
             /\ spent' = IF received THEN spent \cup {TokenToString(token)} ELSE spent
    /\ UNCHANGED <<now, server_cancel, shutdown_rx, process>>

\* the token wallet.send returns for a prepared send of `amount`
ChangeToken(mint, amount) == [mint |-> mint, value |-> amount]

\* gateway_server.rs:428-453: one turn of the change loop
MintChangeStep(h, outcome) ==
    LET mint_url == h.used_mints[h.idx]
        payment_proof == Unwrap(Unwrap(h.payment_response).payment_proof)
        h1 == Call(h, [op |-> "get_wallet", mint |-> mint_url])
        h2 == Call(h1, [op |-> "prepare_send", mint |-> mint_url, amount |-> h.change_amount,
                        ok |-> outcome # "prepare_send failed"])
        h3 == Call(h2, [op |-> "send", mint |-> mint_url, amount |-> h.change_amount,
                        ok |-> outcome = "sent"])
        h4 == [h3 EXCEPT !.change = Append(@, ChangeToken(mint_url, h.change_amount))]
    IN  IF mint_url \notin Wallets
        THEN Return(h1, PanicResponse)
        ELSE IF outcome = "prepare_send failed"
        THEN Return(h2, PanicResponse)
        ELSE IF outcome = "send failed"
        THEN Return(h3, PanicResponse)
        ELSE IF h.idx < Len(h.used_mints)
        THEN [h4 EXCEPT !.idx = @ + 1]
        ELSE Return(h4, OkResponse(payment_proof, h4.change))

\* what prepare_send followed by send may do
SendOutcomes == {"sent", "prepare_send failed", "send failed"}

MintChange(r) ==
    /\ process = "running"
    /\ handler[r].pc = "change"
    /\ \E outcome \in SendOutcomes :
         handler' = [handler EXCEPT ![r] = MintChangeStep(handler[r], outcome)]
    /\ UNCHANGED <<now, spent, server_cancel, shutdown_rx, process>>

Next ==
    \/ Tick
    \/ \E r \in Handlers : DecodeRequest(r)
    \/ \E r \in Handlers : ValidateToken(r)
    \/ \E r \in Handlers : MakePayment(r)
    \/ \E r \in Handlers : ReceiveToken(r)
    \/ \E r \in Handlers : MintChange(r)

Spec == Init /\ [][Next]_vars

\* cdk_gateway.rs:153-181: the Ctrl+C handler runs stop_server, which cancels
\* server_cancel (gateway_server.rs:84-88), and then sends on the shutdown channel
CtrlC ==
    /\ process = "running"
    /\ ~server_cancel
    /\ server_cancel' = TRUE
    /\ shutdown_rx' = shutdown_rx + 1
    /\ UNCHANGED <<handler, now, spent, process>>

\* cdk_gateway.rs:184-189: main takes the message off the shutdown channel and
\* returns; the process exits, and with it the runtime's tasks: the server task
\* spawned at cdk_gateway.rs:130-134 is never joined
MainReturn ==
    /\ process = "running"
    /\ shutdown_rx > 0
    /\ shutdown_rx' = shutdown_rx - 1
    /\ process' = "exited"
    /\ UNCHANGED <<handler, now, spent, server_cancel>>

\* the ErrorResponse values into_response is applied to
ErrorCodes == {0, 99, 100, 400, 402, 404, 500, 999, 1000, 65535}
ErrorMessages ==
    {"Insufficient funds", "Missing amount", "Token verification failed",
     "Payment failed", "Token hash does not match payment hash",
     "Insufficient funds for the fee", "Amount: Missing amount", ""}
ErrorHints ==
    {None, Some(PaymentRequestToString(PaymentRequest(1, Wallets, "H1"))),
     Some([creq |-> "creq\n", encoded |-> None])}
ErrorResponses ==
    {ErrorResponse(code, message, details, payment_request) :
        code \in ErrorCodes, message \in ErrorMessages,
        details \in {None, Some("details")}, payment_request \in ErrorHints}

\* a handler has returned Err(e): the response is still to be built
InitShaper ==
    /\ handler \in [Handlers -> {[IdleHandler EXCEPT !.pc = "error", !.error = Some(e)] :
                                    e \in ErrorResponses}]
    /\ now = 0
    /\ spent = {}
    /\ server_cancel = FALSE
    /\ shutdown_rx = 0
    /\ process = "running"

\* axum turns the handler's Err(e) into the response: e.into_response()
ShapeError(r) ==
    /\ handler[r].pc = "error"
    /\ handler' = [handler EXCEPT ![r] = Return(@, IntoResponse(Unwrap(@.error)))]
    /\ UNCHANGED <<now, spent, server_cancel, shutdown_rx, process>>

NextShaper == \E r \in Handlers : ShapeError(r)

\* into_response over the ErrorResponse values
SpecShaper == InitShaper /\ [][NextShaper]_vars

\* the request `payload` without the token strings that fail to decode
CleanedPayload(payload) ==
    [payload EXCEPT !.tokens = SelectSeq(@, LAMBDA s : TokenFromStr(s) # None)]

\* two runs of the handler side by side: run 1 serves a request, run 2 the same
\* request without its malformed token strings; clock, node and mints behave
\* the same in both, and a step is taken by both runs if they stand at its pc
Runs == {1, 2}

InitTwin ==
    /\ handler = [r \in Runs |-> IdleHandler]
    /\ now = 0
    /\ spent = {}
    /\ server_cancel = FALSE
    /\ shutdown_rx = 0
    /\ process = "running"

TwinDecode ==
    /\ handler[1].pc = "idle"
    /\ \E payload \in Payloads :
         handler' = [r \in Runs |->
                       DecodeRequestStep(handler[r],
                                         IF r = 1 THEN payload ELSE CleanedPayload(payload),
                                         now)]
    /\ UNCHANGED <<now, spent, server_cancel, shutdown_rx, process>>

TwinValidate ==
    /\ handler[1].pc = "validate"
    /\ handler' = [r \in Runs |-> IF handler[r].pc = "validate"
                                   THEN ValidateTokenStep(handler[r], now)
                                   ELSE handler[r]]
    /\ UNCHANGED <<now, spent, server_cancel, shutdown_rx, process>>

TwinPay ==
    /\ handler[1].pc = "pay"
    /\ \E result \in PaymentResults :
         handler' = [r \in Runs |-> IF handler[r].pc = "pay"
                                   THEN MakePaymentStep(handler[r], result)
                                   ELSE handler[r]]
    /\ UNCHANGED <<now, spent, server_cancel, shutdown_rx, process>>

TwinReceive ==
    /\ handler[1].pc = "receive"
    /\ LET h == handler[1]
           token == h.tokens[h.idx]
           payment_proof == Unwrap(h.payment_response).payment_proof
           called == token.mint \in Wallets /\ IsSome(payment_proof)
       IN  \E received \in BOOLEAN :
             /\ received => called /\ MintAccepts(token, Unwrap(payment_proof), spent)
             /\ ~called => ~received
             /\ handler' = [r \in Runs |-> IF handler[r].pc = "receive"
                                   THEN ReceiveTokenStep(handler[r], received)
                                   ELSE handler[r]]
             /\ spent' = IF received THEN spent \cup {TokenToString(token)} ELSE spent
    /\ UNCHANGED <<now, server_cancel, shutdown_rx, process>>

TwinChange ==
    /\ handler[1].pc = "change"
    /\ \E outcome \in SendOutcomes :
         handler' = [r \in Runs |-> IF handler[r].pc = "change"
                                   THEN MintChangeStep(handler[r], outcome)
                                   ELSE handler[r]]
    /\ UNCHANGED <<now, spent, server_cancel, shutdown_rx, process>>

NextTwin ==
    \/ Tick
    \/ TwinDecode
    \/ TwinValidate
    \/ TwinPay
    \/ TwinReceive
    \/ TwinChange

SpecTwin == InitTwin /\ [][NextTwin]_vars

\* node.make_payment runs without a timeout (timeout_secs: None) and the
\* receive loop follows it: the clock goes on while a handler waits for either
PaymentDelay ==
    /\ process = "running"
    /\ now < MaxDelayTicks * TickSize
    /\ \E r \in Handlers : handler[r].pc \in {"pay", "receive"}
    /\ now' = now + TickSize
    /\ UNCHANGED <<handler, spent, server_cancel, shutdown_rx, process>>

\* the gateway with an upstream payment that may take long
NextSlowPayment ==
    \/ Tick
    \/ \E r \in Handlers : DecodeRequest(r)
    \/ \E r \in Handlers : ValidateToken(r)
    \/ \E r \in Handlers : MakePayment(r)
    \/ \E r \in Handlers : ReceiveToken(r)
    \/ \E r \in Handlers : MintChange(r)
    \/ PaymentDelay

SpecSlowPayment == Init /\ [][NextSlowPayment]_vars

\* the requests of two clients that hold the same tokens: an invoice for 1 sat
\* on H1, backed by token tB or by token tC
SharedPayloads ==
    {payload \in Payloads :
        /\ payload.method = "bolt11"
        /\ payload.request = "lnbc1000m-H1"
        /\ payload.amount = None
        /\ payload.tokens \in {<<"tB">>, <<"tC">>}}

\* two handler tasks of the one router, no lock between them
InitConcurrent ==
    /\ handler = [r \in Runs |-> IdleHandler]
    /\ now = 0
    /\ spent = {}
    /\ server_cancel = FALSE
    /\ shutdown_rx = 0
    /\ process = "running"

\* POST /payment from one of the two clients
DecodeShared(r) ==
    /\ process = "running"
    /\ ~server_cancel
    /\ handler[r].pc = "idle"
    /\ \E payload \in SharedPayloads :
         handler' = [handler EXCEPT ![r] = DecodeRequestStep(handler[r], payload, now)]
    /\ UNCHANGED <<now, spent, server_cancel, shutdown_rx, process>>

\* the handler tasks run interleaved at their suspension points
NextConcurrent ==
    \/ Tick
    \/ \E r \in Runs : DecodeShared(r)
    \/ \E r \in Runs : ValidateToken(r)
    \/ \E r \in Runs : MakePayment(r)
    \/ \E r \in Runs : ReceiveToken(r)
    \/ \E r \in Runs : MintChange(r)

SpecConcurrent == InitConcurrent /\ [][NextConcurrent]_vars

\* the gateway with its shutdown path
NextShutdown ==
    \/ Tick
    \/ \E r \in Handlers : DecodeRequest(r)
    \/ \E r \in Handlers : ValidateToken(r)
    \/ \E r \in Handlers : MakePayment(r)
    \/ \E r \in Handlers : ReceiveToken(r)
    \/ \E r \in Handlers : MintChange(r)
    \/ CtrlC
    \/ MainReturn

SpecShutdown == Init /\ [][NextShutdown]_vars

(* ---------------------------------------------------------------------- *)
(* Vocabulary of the properties: a request as its client and the           *)
(* collaborators see it (payload, record of calls, response)               *)
(* ---------------------------------------------------------------------- *)
\* the handlers whose request has arrived
Arrived == {r \in Handlers : handler[r].pc # "idle"}
\* the handlers that have returned
Done == {r \in Handlers : handler[r].pc = "done"}

PayloadOf(r) == Unwrap(handler[r].payload)
ResponseOf(r) == Unwrap(handler[r].response)

\* the entries of handler r's record for one operation
CallsOf(r, op) == SelectSeq(handler[r].calls, LAMBDA c : c.op = op)

\* a bolt11 request whose invoice parses and whose amount is determined
AmountDetermined(r) ==
    /\ PayloadOf(r).method = "bolt11"
    /\ IsSome(ParseInvoice(PayloadOf(r).request))
    /\ \/ IsSome(Unwrap(ParseInvoice(PayloadOf(r).request)).amount_milli_satoshis)
       \/ IsSome(PayloadOf(r).amount)

InvoiceOf(r) == Unwrap(ParseInvoice(PayloadOf(r).request))

RequiredAmount(r) ==
    IF IsSome(InvoiceOf(r).amount_milli_satoshis)
    THEN Unwrap(InvoiceOf(r).amount_milli_satoshis) \div 1000
    ELSE Unwrap(PayloadOf(r).amount)

\* the submitted tokens that decode, in the order sent
SubmittedTokens(r) == DecodeTokens(PayloadOf(r).tokens)
TotalInput(r) == TotalAmount(SubmittedTokens(r))

\* the token whose proofs the i-th proof check of handler r examined
ProofChecks(r) == CallsOf(r, "check_proofs")

\* the positions of the entries for one operation in handler r's record
PositionsOf(r, op) == {j \in 1..Len(handler[r].calls) : handler[r].calls[j].op = op}

\* every proof of `token` is an HTLC on `hash` whose locktime, if any, is at
\* least 900 s after the clock reading t
TokenBound(token, hash, t) ==
    \A k \in 1..Len(token.proofs) :
       /\ token.proofs[k].kind = "HTLC"
       /\ token.proofs[k].data = hash
       /\ IsSome(token.proofs[k].locktime) => Unwrap(token.proofs[k].locktime) >= t + 900

\* some proof of some of `tokens` is an HTLC on a hash other than `hash`
HasHashMismatch(tokens, hash) ==
    \E i \in 1..Len(tokens) :
       \E k \in 1..Len(tokens[i].proofs) :
          /\ tokens[i].proofs[k].kind = "HTLC"
          /\ tokens[i].proofs[k].data # hash

(* ---------------------------------------------------------------------- *)
(* Properties                                                              *)
(* ---------------------------------------------------------------------- *)
\* C1: make_payment is called at most once per request, and only after
\* validation has passed: the amount is determined, the decoded tokens' values
\* sum to at least the required amount, every token has been checked before the
\* call, and every proof of every decoded token is an HTLC on the invoice's
\* payment hash whose locktime, if present, is >= the clock reading of its check
\* + 900.  A request with a proof on another hash never reaches make_payment.
PaymentOnlyAfterValidation ==
    \A r \in Arrived :
       LET pays == PositionsOf(r, "make_payment")
           tokens == SubmittedTokens(r)
           checks == ProofChecks(r)
       IN  /\ Cardinality(pays) <= 1
           /\ pays # {} =>
                /\ AmountDetermined(r)
                /\ TotalAmount(tokens) >= RequiredAmount(r)
                /\ Len(checks) = Len(tokens)
                /\ \A j \in PositionsOf(r, "check_proofs") \cup PositionsOf(r, "verify_token_dleq") :
                      \A m \in pays : j < m
                /\ \A i \in 1..Len(tokens) :
                      /\ TokenFromStr(checks[i].token) = Some(tokens[i])
                      /\ TokenBound(tokens[i], InvoiceOf(r).payment_hash, checks[i].unix_time)
                /\ ~HasHashMismatch(tokens, InvoiceOf(r).payment_hash)

\* C1 witness: a payment was made for two tokens, one of them with a locktime
\* exactly 900 s after the clock reading of its check
PaymentAfterValidationReached ==
    \E r \in Arrived :
       /\ PositionsOf(r, "make_payment") # {}
       /\ Len(SubmittedTokens(r)) = 2
       /\ \E i \in 1..2 : \E k \in 1..Len(SubmittedTokens(r)[i].proofs) :
             SubmittedTokens(r)[i].proofs[k].locktime = Some(ProofChecks(r)[i].unix_time + 900)

\* the result the node returned to handler r's make_payment call at position m
PaymentResult(r, m) == handler[r].calls[m].result

\* the node reported success to handler r but returned no preimage
PaidWithoutPreimage(r) ==
    \E m \in PositionsOf(r, "make_payment") :
       /\ IsSome(PaymentResult(r, m))
       /\ Unwrap(PaymentResult(r, m)).payment_proof = None

\* C2: receive is invoked only after the request's make_payment has returned
\* successfully with a preimage, and with exactly that preimage; when the node
\* reports success without a preimage no receive, prepare_send or send is
\* invoked and the request can only end in a code-500 error.
ReceiveOnlyWithNodePreimage ==
    \A r \in Arrived :
       /\ \A k \in PositionsOf(r, "receive") :
             \E m \in PositionsOf(r, "make_payment") :
                /\ m < k
                /\ IsSome(PaymentResult(r, m))
                /\ IsSome(Unwrap(PaymentResult(r, m)).payment_proof)
                /\ handler[r].calls[k].preimages
                     = <<Unwrap(Unwrap(PaymentResult(r, m)).payment_proof)>>
       /\ PaidWithoutPreimage(r) =>
             /\ PositionsOf(r, "receive") = {}
             /\ PositionsOf(r, "prepare_send") = {}
             /\ PositionsOf(r, "send") = {}
             /\ handler[r].pc \in {"receive", "done"}
             /\ r \in Done =>
                   /\ ResponseOf(r).kind = "error"
                   /\ ResponseOf(r).status = 500
                   /\ ResponseOf(r).body.code = 500

\* C2 witness: a request answered 200 after two tokens were received with the
\* node's preimage
ReceivedWithNodePreimageReached ==
    \E r \in Done :
       /\ ResponseOf(r).kind = "ok"
       /\ Cardinality(PositionsOf(r, "receive")) = 2
       /\ \A k \in PositionsOf(r, "receive") : handler[r].calls[k].received

\* the decoded tokens of handler r's request are worth less than it requires
Underfunded(r) == AmountDetermined(r) /\ TotalInput(r) < RequiredAmount(r)

\* C3: a bolt11 request with a parsed invoice and a determined amount whose
\* decodable tokens sum to less than the required amount is answered HTTP 402,
\* body code 402, message "Insufficient funds", details "Required: <required>,
\* provided: <sum>", with an X-Cashu hint for amount = required and hash = the
\* invoice's payment hash; make_payment is not called.
InsufficientFundsAnswered ==
    \A r \in Arrived :
       Underfunded(r) =>
          /\ PositionsOf(r, "make_payment") = {}
          /\ r \in Done
          /\ r \in Done =>
                /\ ResponseOf(r).kind = "error"
                /\ ResponseOf(r).status = 402
                /\ ResponseOf(r).body.code = 402
                /\ ResponseOf(r).body.message = "Insufficient funds"
                /\ ResponseOf(r).body.details
                     = Some("Required: " \o ToString(RequiredAmount(r))
                            \o ", provided: " \o ToString(TotalInput(r)))
                /\ IsSome(ResponseOf(r).x_cashu)
                /\ Unwrap(ResponseOf(r).x_cashu).encoded.amount = RequiredAmount(r)
                /\ Unwrap(ResponseOf(r).x_cashu).encoded.nut10.data
                     = InvoiceOf(r).payment_hash

\* C3 witness: a request with decodable tokens worth less than required has
\* been answered
InsufficientFundsReached ==
    \E r \in Done : Underfunded(r) /\ TotalInput(r) > 0 /\ ResponseOf(r).status = 402

\* handler r's request was answered 200
Succeeded(r) == r \in Done /\ ResponseOf(r).kind = "ok"

\* the amount the node reported as spent on handler r's (successful) payment
TotalSpent(r) ==
    LET m == CHOOSE m \in PositionsOf(r, "make_payment") : TRUE
    IN  Unwrap(PaymentResult(r, m)).total_spent

\* the summed value of the change tokens in a 200 response
ChangeValue(change) == SumAmounts([k \in 1..Len(change) |-> change[k].value])

\* C4: for every successful (200) request the values of the change tokens
\* returned sum to exactly max(0, total_input - total_spent), whatever the
\* number of submitted tokens and mints.
ChangeEqualsSurplus ==
    \A r \in Done :
       Succeeded(r) =>
          ChangeValue(ResponseOf(r).body.change)
            = IF TotalInput(r) >= TotalSpent(r) THEN TotalInput(r) - TotalSpent(r) ELSE 0

\* C5: for every successful (200) request the amount the node spent is at most
\* the summed value of the submitted tokens.
SpentWithinInput ==
    \A r \in Done : Succeeded(r) => TotalSpent(r) <= TotalInput(r)

\* C6: every request with a proof whose HTLC data differs from the invoice's
\* payment hash, and that is answered at all, is answered HTTP 402, also when
\* its tokens cover the required amount and pass DLEQ verification.
HashMismatchAnswered402 ==
    \A r \in Done :
       (/\ AmountDetermined(r)
        /\ HasHashMismatch(SubmittedTokens(r), InvoiceOf(r).payment_hash)
        /\ ResponseOf(r).kind # "panic")
       => ResponseOf(r).status = 402

\* the clock reading when handler r was entered
ArrivedAt(r) == handler[r].calls[1].unix_time

\* some proof of `token` has a locktime less than 900 s after the clock reading t
HasShortLocktime(token, t) ==
    \E k \in 1..Len(token.proofs) :
       /\ token.proofs[k].kind = "HTLC"
       /\ IsSome(token.proofs[k].locktime)
       /\ Unwrap(token.proofs[k].locktime) < t + 900

\* C7: every request with a proof whose HTLC locktime is present and less than
\* now + 900 s, and that is answered at all, is answered HTTP 402; and the
\* answer "Token lock time is not long enough" is given only for a token with a
\* locktime below the clock reading of its check + 900 (a locktime of exactly
\* now + 900, or none, is not rejected on this ground).
ShortLocktimeAnswered402 ==
    \A r \in Done :
       /\ (/\ AmountDetermined(r)
           /\ \E i \in 1..Len(SubmittedTokens(r)) :
                 HasShortLocktime(SubmittedTokens(r)[i], ArrivedAt(r))
           /\ ResponseOf(r).kind # "panic")
          => ResponseOf(r).status = 402
       /\ (/\ ResponseOf(r).kind = "error"
           /\ ResponseOf(r).body.message = "Token lock time is not long enough")
          => LET last == ProofChecks(r)[Len(ProofChecks(r))]
             IN  HasShortLocktime(Unwrap(TokenFromStr(last.token)), last.unix_time)

\* a bolt11 request whose invoice embeds no amount and whose body has none
AmountMissing(r) ==
    /\ PayloadOf(r).method = "bolt11"
    /\ IsSome(ParseInvoice(PayloadOf(r).request))
    /\ InvoiceOf(r).amount_milli_satoshis = None
    /\ PayloadOf(r).amount = None

\* C8: a bolt11 request whose invoice embeds no amount and whose body has no
\* amount is answered HTTP 402 "Missing amount" with an X-Cashu header carrying
\* a payment-request hint of amount 0.
MissingAmountHinted ==
    \A r \in Done :
       AmountMissing(r) =>
          /\ ResponseOf(r).kind = "error"
          /\ ResponseOf(r).status = 402
          /\ ResponseOf(r).body.message = "Missing amount"
          /\ IsSome(ResponseOf(r).x_cashu)
          /\ Unwrap(ResponseOf(r).x_cashu).encoded.amount = 0

RECURSIVE DistinctInOrder(_, _)
\* the distinct elements of a sequence, in order of first appearance
DistinctInOrder(seq, seen) ==
    IF seq = <<>> THEN <<>>
    ELSE IF Head(seq) \in seen THEN DistinctInOrder(Tail(seq), seen)
    ELSE <<Head(seq)>> \o DistinctInOrder(Tail(seq), seen \cup {Head(seq)})

\* the mint URLs of the submitted tokens, in the order sent
SubmittedMints(r) == [i \in 1..Len(SubmittedTokens(r)) |-> SubmittedTokens(r)[i].mint]

\* C9: when a successful request has total_input > total_spent, change is
\* minted once per distinct mint URL in order of first appearance, so tokens
\* that all come from one mint yield exactly one change token.
ChangeOncePerMint ==
    \A r \in Done :
       (Succeeded(r) /\ TotalInput(r) > TotalSpent(r)) =>
          LET change == ResponseOf(r).body.change
          IN  /\ [k \in 1..Len(change) |-> change[k].mint]
                   = DistinctInOrder(SubmittedMints(r), {})
              /\ Len(DistinctInOrder(SubmittedMints(r), {})) = 1 => Len(change) = 1

\* C10: a successful request with total_input = total_spent has an empty change
\* list and made no prepare_send or send call.
NoChangeWhenExact ==
    \A r \in Done :
       (Succeeded(r) /\ TotalInput(r) = TotalSpent(r)) =>
          /\ ResponseOf(r).body.change = <<>>
          /\ PositionsOf(r, "prepare_send") = {}
          /\ PositionsOf(r, "send") = {}

\* the requests that were in flight when the process exited
CutOff == {r \in Arrived : process = "exited" /\ handler[r].pc # "done"}

\* C11: once the upstream payment of a request has been made, shutdown never
\* cuts the request off: it is never left between make_payment and its return
\* (redemption and change) by the process going away.
PaidSwapNeverCutOff ==
    \A r \in CutOff : PositionsOf(r, "make_payment") = {}

\* C12: a bolt12 request is answered with code 400 and the message "Payment
\* method not supported", HTTP status 400 and no X-Cashu header, before any token
\* is decoded and without any call on a wallet, a mint or the node.
Bolt12Rejected ==
    \A r \in Arrived :
       PayloadOf(r).method = "bolt12" =>
          /\ r \in Done
          /\ ResponseOf(r).kind = "error"
          /\ ResponseOf(r).status = 400
          /\ ResponseOf(r).body.code = 400
          /\ ResponseOf(r).body.message = "Payment method not supported"
          /\ ResponseOf(r).x_cashu = None
          /\ handler[r].tokens = <<>>
          /\ Len(handler[r].calls) = 1
          /\ handler[r].calls[1].op = "post_melt_request"

\* a bolt12 request carrying two tokens that would decode has been answered
Bolt12RejectedReached ==
    \E r \in Done :
       /\ PayloadOf(r).method = "bolt12"
       /\ Len(SubmittedTokens(r)) = 2
       /\ ResponseOf(r).status = 400

\* the error responses sent so far
ErrorsSent == {r \in Done : ResponseOf(r).kind = "error"}

\* the messages the mapping singles out
PromotedMessages == {"Insufficient funds", "Missing amount", "Token verification failed"}

\* the status of an error that is not promoted: its code if that is a status
\* code (100..999), else 500
PlainStatus(code) == IF code \in 100..999 THEN code ELSE 500

HintOnlyInHeader ==
    \A r \in Done :
       /\ ResponseOf(r).kind = "ok" =>
             ResponseOf(r).status = 200 /\ ResponseOf(r).x_cashu = None
       /\ ResponseOf(r).kind = "error" =>
             /\ ResponseOf(r).status # 402 => ResponseOf(r).x_cashu = None
             /\ DOMAIN ResponseOf(r).body = {"code", "message", "details"}

\* an error built with a hint went out with a status other than 402
HintOnlyInHeaderReached ==
    \E r \in Done :
       /\ ResponseOf(r).kind = "error"
       /\ ResponseOf(r).body.message = "Token hash does not match payment hash"
       /\ ResponseOf(r).status = 400
       /\ IsSome(handler[r].payment_request)

\* the requests whose amount was determined and whose tokens were summed
FundsChecked == {r \in Arrived : AmountDetermined(r)}

\* `sat` is the whole number of sat in `msat`
FloorSat(msat, sat) == sat * 1000 <= msat /\ msat < (sat + 1) * 1000

\* req is the amount request r has to cover: floor(N / 1000) for an invoice
\* that embeds N msat, whatever the body says, else the amount of the body
IsRequired(r, req) ==
    IF IsSome(InvoiceOf(r).amount_milli_satoshis)
    THEN FloorSat(Unwrap(InvoiceOf(r).amount_milli_satoshis), req)
    ELSE req = Unwrap(PayloadOf(r).amount)

\* C15: an invoice that embeds N msat requires floor(N / 1000) sat whatever the
\* amount of the body (used only when the invoice embeds none); that one amount
\* decides the funds check (the request is refused for insufficient funds
\* exactly if the tokens sum to less) and is the amount of every hint sent.
RequiredAmountFromInvoice ==
    \A r \in FundsChecked :
       LET req == handler[r].amount_to_pay_sat
           refused == /\ r \in Done
                      /\ ResponseOf(r).kind = "error"
                      /\ ResponseOf(r).body.message = "Insufficient funds"
       IN  /\ IsRequired(r, req)
           /\ refused <=> TotalInput(r) < req
           /\ refused => ResponseOf(r).body.details =
                             Some(InsufficientDetails(req, TotalInput(r)))
           /\ (r \in Done /\ IsSome(ResponseOf(r).x_cashu)) =>
                 Unwrap(ResponseOf(r).x_cashu).encoded.amount = req

\* an invoice of 2500 msat sent with a body amount of 3 and tokens worth 2 was
\* taken to require 2 sat: the funds check passed and the payment was made
RequiredAmountFromInvoiceReached ==
    \E r \in FundsChecked :
       /\ InvoiceOf(r).amount_milli_satoshis = Some(2500)
       /\ PayloadOf(r).amount = Some(3)
       /\ TotalInput(r) = 2
       /\ PositionsOf(r, "make_payment") # {}

\* the token strings of request r that decode, in the order sent
DecodableStrings(r) ==
    SelectSeq(PayloadOf(r).tokens, LAMBDA t : IsSome(TokenFromStr(t)))

\* C16: within a request the phases are strictly ordered: every receive comes
\* after the make_payment call, which has returned a response; the receives go
\* through the client's tokens one at a time in the order sent, each one only
\* after the one before it succeeded; and prepare_send or send is called only
\* after every token has been received successfully.
PhasesInOrder ==
    \A r \in Arrived :
       LET calls == handler[r].calls
           pays == PositionsOf(r, "make_payment")
           recvs == PositionsOf(r, "receive")
           receives == CallsOf(r, "receive")
           sends == PositionsOf(r, "prepare_send") \cup PositionsOf(r, "send")
       IN  /\ \A j \in recvs : \E p \in pays : p < j /\ IsSome(calls[p].result)
           /\ Len(receives) <= Len(DecodableStrings(r))
           /\ \A i \in 1..Len(receives) :
                 /\ receives[i].token = DecodableStrings(r)[i]
                 /\ i < Len(receives) => receives[i].received
           /\ \A j \in sends :
                 /\ Len(receives) = Len(DecodableStrings(r))
                 /\ \A i \in 1..Len(receives) : receives[i].received
                 /\ \A k \in recvs \cup pays : k < j

\* a request with two different tokens was paid, both tokens were received in
\* the order sent, and change was sent
PhasesInOrderReached ==
    \E r \in Done :
       /\ Succeeded(r)
       /\ Len(CallsOf(r, "receive")) = 2
       /\ CallsOf(r, "receive")[1].token # CallsOf(r, "receive")[2].token
       /\ PositionsOf(r, "send") # {}

\* handler r's record ends with the call at position j, and r has answered
\* with code 500 and the given message
EndedAt(r, j, message) ==
    /\ j = Len(handler[r].calls)
    /\ r \in Done
    /\ ResponseOf(r).kind = "error"
    /\ ResponseOf(r).status = 500
    /\ ResponseOf(r).body.code = 500
    /\ ResponseOf(r).body.message = message

\* C17: an error ends the request on the spot, with no retry and nothing
\* undone.  A failed make_payment is the handler's last call: the response is
\* code 500 "Payment failed" and there is no receive, prepare_send or send.  A
\* failed receive is the handler's last call: the response is code 500, no
\* later token is received, no change is minted, and make_payment has been
\* called exactly once.
ErrorsShortCircuit ==
    \A r \in Arrived :
       LET calls == handler[r].calls
       IN  \A j \in 1..Len(calls) :
              /\ (calls[j].op = "make_payment" /\ calls[j].result = None) =>
                    /\ EndedAt(r, j, "Payment failed")
                    /\ PositionsOf(r, "make_payment") = {j}
                    /\ PositionsOf(r, "receive") = {}
                    /\ PositionsOf(r, "prepare_send") \cup PositionsOf(r, "send") = {}
              /\ (calls[j].op = "receive" /\ ~calls[j].received) =>
                    /\ EndedAt(r, j, "Failed to process token receive")
                    /\ Cardinality(PositionsOf(r, "make_payment")) = 1
                    /\ PositionsOf(r, "prepare_send") \cup PositionsOf(r, "send") = {}
                    /\ handler[r].change = <<>>

\* the receive of the first of two tokens failed after the payment was made:
\* the second token was never received
ErrorsShortCircuitReached ==
    \E r \in Done :
       /\ Len(SubmittedTokens(r)) = 2
       /\ Len(CallsOf(r, "receive")) = 1
       /\ ~CallsOf(r, "receive")[1].received
       /\ PositionsOf(r, "make_payment") # {}
       /\ ResponseOf(r).status = 500

\* C18: when prepare_send or send fails while change is minted, the request
\* ends with a structured error response of code 500 to the client.
ChangeFailureAnswered500 ==
    \A r \in Arrived :
       \A j \in PositionsOf(r, "prepare_send") \cup PositionsOf(r, "send") :
          ~handler[r].calls[j].ok =>
             /\ r \in Done
             /\ ResponseOf(r).kind = "error"
             /\ ResponseOf(r).status = 500
             /\ ResponseOf(r).body.code = 500

\* some token of handler r's request would fail a per-token check: its wallet
\* is unknown, its DLEQ proof is invalid, or a proof of it is no HTLC on the
\* invoice's hash with a long enough locktime
HasBadToken(r) ==
    \E i \in 1..Len(SubmittedTokens(r)) :
       LET token == SubmittedTokens(r)[i]
       IN  \/ token.mint \notin Wallets
           \/ ~token.dleq
           \/ ~TokenBound(token, InvoiceOf(r).payment_hash, ArrivedAt(r))

\* C19: the funds check comes before any per-token work.  A request whose
\* decoded tokens sum to less than the required amount ends with the
\* insufficient-funds error without a single wallet lookup, verify_token_dleq
\* call or proof inspection, also when one of its tokens would fail a check.
FundsCheckBeforeTokenWork ==
    \A r \in Arrived :
       Underfunded(r) =>
          /\ handler[r].calls = <<[op |-> "post_melt_request", unix_time |-> ArrivedAt(r)]>>
          /\ handler[r].used_mints = <<>>
          /\ r \in Done
          /\ ResponseOf(r).kind = "error"
          /\ ResponseOf(r).body.message = "Insufficient funds"

\* an underfunded request with a token that would fail a per-token check was
\* answered with the insufficient-funds error
FundsCheckBeforeTokenWorkReached ==
    \E r \in Done :
       /\ Underfunded(r)
       /\ HasBadToken(r)
       /\ ResponseOf(r).body.message = "Insufficient funds"

\* C20: token strings that fail to decode are skipped without a trace: the
\* request and the same request without them get the same response after the
\* same sequence of wallet, mint and node calls, at every point of their runs.
MalformedTokensSkipped ==
    handler[1].pc # "idle" =>
       /\ PayloadOf(2) = CleanedPayload(PayloadOf(1))
       /\ handler[2].pc = handler[1].pc
       /\ handler[2].calls = handler[1].calls
       /\ handler[2].response = handler[1].response

\* a request with a malformed string before a good token was served to the
\* end, and so was the request with the good token alone
MalformedTokensSkippedReached ==
    /\ handler[1].pc = "done"
    /\ PayloadOf(1).tokens = <<"garbage", "tA">>
    /\ PayloadOf(2).tokens = <<"tA">>
    /\ ResponseOf(1).kind = "ok"
    /\ ResponseOf(2).kind = "ok"

\* the locktime of some proof of `token` has passed at clock reading t
LocktimeElapsed(token, t) ==
    \E k \in 1..Len(token.proofs) :
       /\ token.proofs[k].kind = "HTLC"
       /\ IsSome(token.proofs[k].locktime)
       /\ Unwrap(token.proofs[k].locktime) < t

\* C21: the 900 s floor keeps redemption ahead of the refund deadline: when
\* the handler is at the receive of an accepted token, no locktime of that
\* token has passed, however long the upstream payment took.
ReceiveBeforeLocktime ==
    \A r \in Arrived :
       handler[r].pc = "receive" =>
          ~LocktimeElapsed(handler[r].tokens[handler[r].idx], now)

\* the value of the distinct tokens of handler r's request, each counted once
DistinctInput(r) == TotalAmount(DistinctInOrder(SubmittedTokens(r), {}))

\* C22: each distinct token counts once toward the funds check: make_payment is
\* not called when the distinct submitted tokens are worth less than the
\* required amount, and no request fails at the receive of a token it has
\* already redeemed.
DistinctTokensCounted ==
    \A r \in FundsChecked :
       LET receives == CallsOf(r, "receive")
       IN  /\ DistinctInput(r) < RequiredAmount(r) => PositionsOf(r, "make_payment") = {}
           /\ \A i, j \in 1..Len(receives) :
                 (i < j /\ receives[i].token = receives[j].token) => receives[j].received

\* C23: a request none of whose token strings decodes (an empty list, or only
\* malformed entries) never causes an upstream payment, also when the required
\* amount is 0.
NoPaymentWithoutTokens ==
    \A r \in Arrived :
       DecodableStrings(r) = <<>> => PositionsOf(r, "make_payment") = {}

\* requests r1 and r2 have both arrived and submit a token in common
ShareToken(r1, r2) ==
    /\ r1 # r2
    /\ handler[r1].pc # "idle"
    /\ handler[r2].pc # "idle"
    /\ \E i \in 1..Len(DecodableStrings(r1)) :
          \E j \in 1..Len(DecodableStrings(r2)) :
             DecodableStrings(r1)[i] = DecodableStrings(r2)[j]

\* C24: a token backs at most one upstream payment, however the handlers
\* interleave: of two requests that submit the same token, at most one reaches
\* make_payment.
TokenBacksOnePayment ==
    \A r1, r2 \in Runs :
       (ShareToken(r1, r2) /\ PositionsOf(r1, "make_payment") # {}) =>
          PositionsOf(r2, "make_payment") = {}

====
